---- MODULE Spec2Model ----
(***************************************************************************)
(* Model of the document core of src/app.py: the front-matter parsers      *)
(* (_parse_markdown, _parse_roadmap_entry), the excerpt extractor, the     *)
(* deadline parser, the sort keys and the three load / selection           *)
(* operations (load_posts, load_roadmap, _select_homepage_entries).        *)
(*                                                                         *)
(* Text is a sequence of one-character strings, so that str.lower,         *)
(* str.startswith, str.split, str.strip, int() and the date parsers are    *)
(* computed character by character as Python computes them.  Time is       *)
(* counted in whole minutes: a naive datetime is the number of minutes of  *)
(* its wall-clock reading since 0001-01-01T00:00 (Python's proleptic       *)
(* ordinal), an aware datetime carries its UTC offset besides.             *)
(***************************************************************************)
EXTENDS Integers, Sequences, FiniteSets, TLC

VARIABLES
    blog,       \* BLOG_DIR: the *.md files, in sorted(glob) order
    roadmap,    \* ROADMAP_DIR: the *.md files, in sorted(glob) order
    tz,         \* UTC offset of the process's local time zone, in minutes
    now,        \* the wall clock, as the naive local datetime.now() returns it
    out,        \* outcome of the last operation
    prev,       \* outcome of the operation before it
    doc,        \* raw text handed to a parser (parser specifications)
    entries     \* argument of _select_homepage_entries (selection specification)

vars == <<blog, roadmap, tz, now, out, prev, doc, entries>>

-----------------------------------------------------------------------------
(* Optional values: Python's None and a present value. *)
None == <<>>
Some(x) == <<x>>
Val(o) == o[1]

\* a list comprehension [f[1], ..., f[n]], built once as a list
ListOf(f) == f \o <<>>

-----------------------------------------------------------------------------
(* Python str operations, on sequences of one-character strings. *)

Whitespace == {" ", "\t", "\n", "\r"}

UpperLetters ==
    <<"A","B","C","D","E","F","G","H","I","J","K","L","M",
      "N","O","P","Q","R","S","T","U","V","W","X","Y","Z">>
LowerLetters ==
    <<"a","b","c","d","e","f","g","h","i","j","k","l","m",
      "n","o","p","q","r","s","t","u","v","w","x","y","z">>

LowerChar(c) ==
    IF \E i \in 1..Len(UpperLetters) : UpperLetters[i] = c
    THEN LowerLetters[CHOOSE i \in 1..Len(UpperLetters) : UpperLetters[i] = c]
    ELSE c

\* str.lower() left out: the text as it is
LowerUnchanged(s) == s

\* str.lower()
Lower(s) == ListOf([i \in 1..Len(s) |-> LowerChar(s[i])])

\* str.startswith(p)
StartsWith(s, p) == Len(s) >= Len(p) /\ SubSeq(s, 1, Len(p)) = p

RECURSIVE RStripSet(_, _)
\* str.rstrip(chars)
RStripSet(s, chars) ==
    IF s # <<>> /\ s[Len(s)] \in chars
    THEN RStripSet(SubSeq(s, 1, Len(s) - 1), chars)
    ELSE s

RECURSIVE LStripSet(_, _)
\* str.lstrip(chars)
LStripSet(s, chars) ==
    IF s # <<>> /\ s[1] \in chars THEN LStripSet(Tail(s), chars) ELSE s

\* str.rstrip()
RStrip(s) == RStripSet(s, Whitespace)

\* str.strip()
Strip(s) == LStripSet(RStripSet(s, Whitespace), Whitespace)

\* index of the first occurrence of the character c in s, 0 when there is none
FirstIndex(s, c) ==
    IF \E i \in 1..Len(s) : s[i] = c
    THEN CHOOSE i \in 1..Len(s) : s[i] = c /\ \A j \in 1..(i - 1) : s[j] # c
    ELSE 0

\* s.split(c, 1)[1] for a string that holds c
AfterFirst(s, c) == SubSeq(s, FirstIndex(s, c) + 1, Len(s))

RECURSIVE SplitChar(_, _)
\* s.split(c) for a one-character separator
SplitChar(s, c) ==
    IF FirstIndex(s, c) = 0 THEN <<s>>
    ELSE <<SubSeq(s, 1, FirstIndex(s, c) - 1)>> \o SplitChar(AfterFirst(s, c), c)

\* str.splitlines(), for text whose line boundary is "\n"
SplitLines(text) ==
    IF text = <<>> THEN <<>>
    ELSE IF text[Len(text)] = "\n"
         THEN SplitChar(SubSeq(text, 1, Len(text) - 1), "\n")
         ELSE SplitChar(text, "\n")

RECURSIVE JoinWith(_, _)
\* sep.join(parts)
JoinWith(parts, sep) ==
    IF parts = <<>> THEN <<>>
    ELSE IF Len(parts) = 1 THEN parts[1]
    ELSE parts[1] \o sep \o JoinWith(Tail(parts), sep)

\* s.replace("\n", " ")
ReplaceNewlines(s) ==
    ListOf([i \in 1..Len(s) |-> IF s[i] = "\n" THEN " " ELSE s[i]])

\* index where the first "\n\n" of s starts, 0 when there is none
FirstBlankLine(s) ==
    IF \E i \in 1..(Len(s) - 1) : s[i] = "\n" /\ s[i + 1] = "\n"
    THEN CHOOSE i \in 1..(Len(s) - 1) :
            /\ s[i] = "\n" /\ s[i + 1] = "\n"
            /\ \A j \in 1..(i - 1) : ~(s[j] = "\n" /\ s[j + 1] = "\n")
    ELSE 0

RECURSIVE SplitParagraphs(_)
\* s.split("\n\n")
SplitParagraphs(s) ==
    IF FirstBlankLine(s) = 0 THEN <<s>>
    ELSE <<SubSeq(s, 1, FirstBlankLine(s) - 1)>>
            \o SplitParagraphs(SubSeq(s, FirstBlankLine(s) + 2, Len(s)))

-----------------------------------------------------------------------------
(* int(text): an optional sign, then decimal digits, single underscores    *)
(* allowed between digits; anything else is a ValueError (None here).      *)

DigitChars == <<"0","1","2","3","4","5","6","7","8","9">>
IsDigit(c) == \E i \in 1..10 : DigitChars[i] = c
DigitVal(c) == (CHOOSE i \in 1..10 : DigitChars[i] = c) - 1
AllDigits(s) == s # <<>> /\ \A i \in 1..Len(s) : IsDigit(s[i])

RECURSIVE Decimal(_)
Decimal(s) ==
    IF s = <<>> THEN 0
    ELSE Decimal(SubSeq(s, 1, Len(s) - 1)) * 10 + DigitVal(s[Len(s)])

WithoutUnderscores(s) == SelectSeq(s, LAMBDA c : c # "_")

IntBody(s) ==
    /\ s # <<>>
    /\ IsDigit(s[1]) /\ IsDigit(s[Len(s)])
    /\ \A i \in 1..Len(s) : IsDigit(s[i]) \/ s[i] = "_"
    /\ \A i \in 1..(Len(s) - 1) : ~(s[i] = "_" /\ s[i + 1] = "_")

ParseInt(s) ==
    LET signed == s # <<>> /\ s[1] \in {"+", "-"}
        body == IF signed THEN Tail(s) ELSE s
    IN  IF ~IntBody(body) THEN None
        ELSE IF signed /\ s[1] = "-"
             THEN Some(0 - Decimal(WithoutUnderscores(body)))
             ELSE Some(Decimal(WithoutUnderscores(body)))

-----------------------------------------------------------------------------
(* datetime.  A datetime is [t, aware, off]: t is its wall-clock reading   *)
(* in minutes since 0001-01-01T00:00, aware tells whether it carries a     *)
(* tzinfo, off is that tzinfo's UTC offset in minutes (0 when naive).      *)

IsLeap(y) == y % 4 = 0 /\ (y % 100 # 0 \/ y % 400 = 0)

DaysInMonth(y, m) ==
    IF m = 2 THEN (IF IsLeap(y) THEN 29 ELSE 28)
    ELSE IF m \in {4, 6, 9, 11} THEN 30 ELSE 31

DaysBeforeYear(y) ==
    (y - 1) * 365 + (y - 1) \div 4 - (y - 1) \div 100 + (y - 1) \div 400

RECURSIVE DaysBeforeMonth(_, _)
DaysBeforeMonth(y, m) ==
    IF m = 1 THEN 0 ELSE DaysBeforeMonth(y, m - 1) + DaysInMonth(y, m - 1)

\* date.toordinal() - 1: whole days since 0001-01-01
DaysSinceDayOne(y, m, d) == DaysBeforeYear(y) + DaysBeforeMonth(y, m) + d - 1

MinutesOf(y, m, d, hh, mm) == (DaysSinceDayOne(y, m, d) * 24 + hh) * 60 + mm

ValidDate(y, m, d) == y >= 1 /\ m \in 1..12 /\ d >= 1 /\ d <= DaysInMonth(y, m)

Naive(t) == [t |-> t, aware |-> FALSE, off |-> 0]
Aware(t, off) == [t |-> t, aware |-> TRUE, off |-> off]

\* the fields of "YYYY<sep>MM<sep>DD" with 4 + 2 + 2 digits, None when ill-formed
FixedDate(s, sep) ==
    IF /\ Len(s) = 10
       /\ AllDigits(SubSeq(s, 1, 4)) /\ s[5] = sep
       /\ AllDigits(SubSeq(s, 6, 7)) /\ s[8] = sep
       /\ AllDigits(SubSeq(s, 9, 10))
       /\ ValidDate(Decimal(SubSeq(s, 1, 4)), Decimal(SubSeq(s, 6, 7)),
                    Decimal(SubSeq(s, 9, 10)))
    THEN Some(<<Decimal(SubSeq(s, 1, 4)), Decimal(SubSeq(s, 6, 7)),
                Decimal(SubSeq(s, 9, 10))>>)
    ELSE None

\* the minutes of "HH:MM", None when ill-formed
FixedTime(s) ==
    IF /\ Len(s) = 5
       /\ AllDigits(SubSeq(s, 1, 2)) /\ s[3] = ":" /\ AllDigits(SubSeq(s, 4, 5))
       /\ Decimal(SubSeq(s, 1, 2)) <= 23 /\ Decimal(SubSeq(s, 4, 5)) <= 59
    THEN Some(Decimal(SubSeq(s, 1, 2)) * 60 + Decimal(SubSeq(s, 4, 5)))
    ELSE None

\* datetime.fromisoformat, on the forms every Python 3 release with
\* fromisoformat accepts at minute resolution: YYYY-MM-DD, YYYY-MM-DD?HH:MM
\* and YYYY-MM-DD?HH:MM(+|-)HH:MM.  None stands for ValueError.
FromIsoFormat(s) ==
    LET date == FixedDate(SubSeq(s, 1, 10), "-")
        time == FixedTime(SubSeq(s, 12, 16))
        offs == FixedTime(SubSeq(s, 18, 22))
        day  == MinutesOf(Val(date)[1], Val(date)[2], Val(date)[3], 0, 0)
    IN  IF Len(s) \notin {10, 16, 22} \/ date = None THEN None
        ELSE IF Len(s) = 10 THEN Some(Naive(day))
        ELSE IF time = None THEN None
        ELSE IF Len(s) = 16 THEN Some(Naive(day + Val(time)))
        ELSE IF s[17] \notin {"+", "-"} \/ offs = None THEN None
        ELSE Some(Aware(day + Val(time),
                        IF s[17] = "-" THEN 0 - Val(offs) ELSE Val(offs)))

\* datetime.strptime(s, "%Y<sep>%m<sep>%d"): a 4-digit year, then month and
\* day of one or two digits.  None stands for ValueError.
StrpDate(s, sep) ==
    LET parts == SplitChar(s, sep)
    IN  IF /\ Len(parts) = 3
           /\ Len(parts[1]) = 4 /\ AllDigits(parts[1])
           /\ Len(parts[2]) \in {1, 2} /\ AllDigits(parts[2])
           /\ Len(parts[3]) \in {1, 2} /\ AllDigits(parts[3])
           /\ ValidDate(Decimal(parts[1]), Decimal(parts[2]), Decimal(parts[3]))
        THEN Some(Naive(MinutesOf(Decimal(parts[1]), Decimal(parts[2]),
                                  Decimal(parts[3]), 0, 0)))
        ELSE None

\* minutes of 1970-01-01T00:00 since 0001-01-01T00:00
EpochMinutes == MinutesOf(1970, 1, 1, 0, 0)

\* datetime.timestamp(): a naive datetime is read in the local time zone
Timestamp(dt, localOff) ==
    IF dt.aware THEN dt.t - dt.off - EpochMinutes
    ELSE dt.t - localOff - EpochMinutes

\* datetime.fromtimestamp(ts): the naive local datetime of a POSIX time
FromTimestamp(ts, localOff) == Naive(ts + localOff + EpochMinutes)

-----------------------------------------------------------------------------
(* Parsing: the excerpt extractor and the two front-matter parsers. *)

Untitled == <<"U","n","t","i","t","l","e","d">>
TitleMarker == <<"#"," ">>
DateKey == <<"d","a","t","e",":">>
StatusKey == <<"s","t","a","t","u","s",":">>
DeadlineKey == <<"d","e","a","d","l","i","n","e",":">>
ProgressKey == <<"p","r","o","g","r","e","s","s",":">>
DefaultStatus == <<"N","o","w">>

\* markdown.markdown(text, extensions=[...]): the external renderer, a fixed
\* function of the text it is given
Markdown(text) == [markdown |-> text]

RECURSIVE FirstParagraph(_)
FirstParagraph(paragraphs) ==
    IF paragraphs = <<>> THEN <<>>
    ELSE IF Strip(Head(paragraphs)) # <<>>
         THEN ReplaceNewlines(Strip(Head(paragraphs)))
         ELSE FirstParagraph(Tail(paragraphs))

_extract_excerpt(body_text) == FirstParagraph(SplitParagraphs(body_text))

\* lines = [line.rstrip() for line in md_text.splitlines()]
RStrippedLines(md_text) ==
    LET raw == SplitLines(md_text)
    IN  ListOf([i \in 1..Len(raw) |-> RStrip(raw[i])])

HasTitleLine(lines) == lines # <<>> /\ StartsWith(lines[1], TitleMarker)

\* title = lines[0][2:].strip() or "Untitled"
TitleOf(lines) ==
    IF HasTitleLine(lines) /\ Strip(SubSeq(lines[1], 3, Len(lines[1]))) # <<>>
    THEN Strip(SubSeq(lines[1], 3, Len(lines[1])))
    ELSE Untitled

\* lines[body_start:]
AfterTitle(lines) == IF HasTitleLine(lines) THEN Tail(lines) ELSE lines

\* one pass of the loop body of _parse_markdown over a line
PostStep(acc, line) ==
    IF StartsWith(Lower(line), DateKey)
    THEN LET date_value == Strip(AfterFirst(line, ":"))
         IN  IF date_value # <<>>
             THEN [acc EXCEPT !.published_at = FromIsoFormat(date_value)]
             ELSE acc
    ELSE [acc EXCEPT !.body_lines = Append(@, line)]

RECURSIVE PostScan(_, _)
PostScan(acc, lines) ==
    IF lines = <<>> THEN acc
    ELSE PostScan(PostStep(acc, Head(lines)), Tail(lines))

_parse_markdown(md_text) ==
    LET lines == RStrippedLines(md_text)
        scan  == PostScan([published_at |-> None, body_lines |-> <<>>],
                          AfterTitle(lines))
        body_text == Strip(JoinWith(scan.body_lines, <<"\n">>))
        render_lines ==
            (IF HasTitleLine(lines) THEN <<lines[1]>> ELSE <<>>) \o scan.body_lines
    IN  [title        |-> TitleOf(lines),
         excerpt      |-> _extract_excerpt(body_text),
         html         |-> Markdown(Strip(JoinWith(render_lines, <<"\n">>))),
         published_at |-> scan.published_at,
         body_lines   |-> scan.body_lines]

\* one pass of the loop body of _parse_roadmap_entry over a line
RoadmapStep(acc, line) ==
    IF StartsWith(Lower(line), StatusKey)
    THEN LET status_value == Strip(AfterFirst(line, ":"))
         IN  IF status_value # <<>> THEN [acc EXCEPT !.status = status_value]
             ELSE acc
    ELSE IF StartsWith(Lower(line), DeadlineKey)
    THEN LET deadline_value == Strip(AfterFirst(line, ":"))
         IN  IF deadline_value # <<>>
             THEN [acc EXCEPT !.deadline = Some(deadline_value)]
             ELSE acc
    ELSE IF StartsWith(Lower(line), ProgressKey)
    THEN LET progress_value == RStripSet(Strip(AfterFirst(line, ":")), {"%"})
             parsed == ParseInt(progress_value)
         IN  IF progress_value # <<>> /\ parsed # None
                /\ 0 <= Val(parsed) /\ Val(parsed) <= 100
             THEN [acc EXCEPT !.progress = parsed]
             ELSE acc
    ELSE [acc EXCEPT !.body_lines = Append(@, line)]

RECURSIVE RoadmapScan(_, _)
RoadmapScan(acc, lines) ==
    IF lines = <<>> THEN acc
    ELSE RoadmapScan(RoadmapStep(acc, Head(lines)), Tail(lines))

_parse_roadmap_entry(md_text) ==
    LET lines == RStrippedLines(md_text)
        scan  == RoadmapScan([status |-> DefaultStatus, deadline |-> None,
                              progress |-> None, body_lines |-> <<>>],
                             AfterTitle(lines))
        body_text == Strip(JoinWith(scan.body_lines, <<"\n">>))
    IN  [title      |-> TitleOf(lines),
         status     |-> scan.status,
         html       |-> Markdown(body_text),
         deadline   |-> scan.deadline,
         progress   |-> scan.progress,
         excerpt    |-> _extract_excerpt(body_text),
         body_lines |-> scan.body_lines]

-----------------------------------------------------------------------------
(* Ranking: the deadline parser, the sort keys, list.sort and the          *)
(* homepage selection.                                                     *)

_parse_deadline(deadline) ==
    IF deadline = None \/ Val(deadline) = <<>> THEN None
    ELSE IF FromIsoFormat(Val(deadline)) # None THEN FromIsoFormat(Val(deadline))
    ELSE IF StrpDate(Val(deadline), "-") # None THEN StrpDate(Val(deadline), "-")
    ELSE StrpDate(Val(deadline), "/")

StatusNow == <<"n","o","w">>
StatusNext == <<"n","e","x","t">>
StatusLater == <<"l","a","t","e","r">>
StatusDone == <<"d","o","n","e">>

_status_rank(status) ==
    LET key == Lower(Strip(status))
    IN  IF key = StatusNow THEN 0
        ELSE IF key = StatusNext THEN 1
        ELSE IF key = StatusLater THEN 2
        ELSE IF key = StatusDone THEN 3
        ELSE 0

\* the status_class lookup without the lower-casing
StatusClassOf_CaseSensitive(status) ==
    LET status_key == Strip(status)
    IN  IF status_key = StatusNow THEN "status-now"
        ELSE IF status_key = StatusNext THEN "status-next"
        ELSE IF status_key = StatusLater THEN "status-later"
        ELSE IF status_key = StatusDone THEN "status-done"
        ELSE "status-now"

\* the status_class lookup of load_roadmap
StatusClassOf(status) ==
    LET status_key == Lower(Strip(status))
    IN  IF status_key = StatusNow THEN "status-now"
        ELSE IF status_key = StatusNext THEN "status-next"
        ELSE IF status_key = StatusLater THEN "status-later"
        ELSE IF status_key = StatusDone THEN "status-done"
        ELSE "status-now"

\* float("inf"): above every distance and timestamp of the model
Inf == 2147483647

Abs(x) == IF x < 0 THEN 0 - x ELSE x

Returned(v) == [raised |-> FALSE, exc |-> "", value |-> v]
Raised(e) == [raised |-> TRUE, exc |-> e, value |-> None]

\* the roadmap key with the deadline flag put before the status rank
_roadmap_sort_key_flag_first(entry, clock, localOff) ==
    LET rank == _status_rank(entry.status)
        deadline_dt == _parse_deadline(entry.deadline)
    IN  IF deadline_dt = None
        THEN Returned(<<1, rank, Inf, 0 - Timestamp(entry.updated_at, localOff)>>)
        ELSE IF Val(deadline_dt).aware THEN Raised("TypeError")
        ELSE Returned(<<0, rank, Abs(Val(deadline_dt).t - clock),
                        0 - Timestamp(entry.updated_at, localOff)>>)

\* the roadmap key with the distance put before the status rank
_roadmap_sort_key_distance_first(entry, clock, localOff) ==
    LET rank == _status_rank(entry.status)
        deadline_dt == _parse_deadline(entry.deadline)
    IN  IF deadline_dt = None
        THEN Returned(<<1, Inf, rank, 0 - Timestamp(entry.updated_at, localOff)>>)
        ELSE IF Val(deadline_dt).aware THEN Raised("TypeError")
        ELSE Returned(<<0, Abs(Val(deadline_dt).t - clock), rank,
                        0 - Timestamp(entry.updated_at, localOff)>>)

\* _roadmap_sort_key(entry), with `clock` the value datetime.now() returns
\* inside this call.  Subtracting the naive now() from an aware deadline
\* raises TypeError.
_roadmap_sort_key(entry, clock, localOff) ==
    LET rank == _status_rank(entry.status)
        deadline_dt == _parse_deadline(entry.deadline)
    IN  IF deadline_dt = None
        THEN Returned(<<rank, 1, Inf, 0 - Timestamp(entry.updated_at, localOff)>>)
        ELSE IF Val(deadline_dt).aware THEN Raised("TypeError")
        ELSE Returned(<<rank, 0, Abs(Val(deadline_dt).t - clock),
                        0 - Timestamp(entry.updated_at, localOff)>>)

\* the homepage key with the progress not negated
_homepage_sort_key_ascending(entry, localOff) ==
    LET progress == IF entry.progress # None THEN Val(entry.progress) ELSE -1
        deadline_dt == _parse_deadline(entry.deadline)
    IN  IF deadline_dt = None THEN <<progress, 1, Inf>>
        ELSE <<progress, 0, Timestamp(Val(deadline_dt), localOff)>>

_homepage_sort_key(entry, localOff) ==
    LET progress == IF entry.progress # None THEN Val(entry.progress) ELSE -1
        deadline_dt == _parse_deadline(entry.deadline)
    IN  IF deadline_dt = None THEN <<0 - progress, 1, Inf>>
        ELSE <<0 - progress, 0, Timestamp(Val(deadline_dt), localOff)>>

\* Python's tuple comparison a < b, for tuples of numbers of one length
TupleLess(a, b) ==
    \E i \in 1..Len(a) :
        /\ a[i] < b[i]
        /\ \A j \in 1..(i - 1) : a[j] = b[j]

\* whether key a has to come before key b
KeyBefore(a, b, reverse) == IF reverse THEN TupleLess(b, a) ELSE TupleLess(a, b)

\* one insertion of list.sort: index i goes in front of the first index of
\* `order` whose key has to come after keys[i], so equal keys keep their order
InsertIndex(order, i, keys, reverse) ==
    IF \E p \in 1..Len(order) : KeyBefore(keys[i], keys[order[p]], reverse)
    THEN LET p == CHOOSE q \in 1..Len(order) :
                    /\ KeyBefore(keys[i], keys[order[q]], reverse)
                    /\ \A r \in 1..(q - 1) :
                          ~KeyBefore(keys[i], keys[order[r]], reverse)
         IN  SubSeq(order, 1, p - 1) \o <<i>> \o SubSeq(order, p, Len(order))
    ELSE Append(order, i)

RECURSIVE SortedOrder(_, _, _)
\* the indices 1..n of `keys` in the order a stable sort leaves them
SortedOrder(keys, n, reverse) ==
    IF n = 0 THEN <<>>
    ELSE InsertIndex(SortedOrder(keys, n - 1, reverse), n, keys, reverse)

\* items.sort(key=..., reverse=...), given the key of every item
SortByKeys(items, keys, reverse) ==
    LET order == SortedOrder(keys, Len(items), reverse)
    IN  ListOf([i \in 1..Len(items) |-> items[order[i]]])

\* candidates[:3]
HomepageLimit == 3

_select_homepage_entries(list, localOff) ==
    LET candidates == SelectSeq(list,
            LAMBDA entry : entry.progress # None /\ Val(entry.progress) < 100)
        keys == ListOf([i \in 1..Len(candidates) |->
                            _homepage_sort_key(candidates[i], localOff)])
        sorted == SortByKeys(candidates, keys, FALSE)
    IN  SubSeq(sorted, 1, IF Len(sorted) < HomepageLimit THEN Len(sorted)
                          ELSE HomepageLimit)

-----------------------------------------------------------------------------
(* The document loader and the entity builders.  A directory is a set of   *)
(* files [name, text, mtime, readable]: mtime is st_mtime in minutes of    *)
(* POSIX time, readable tells whether read_text succeeds.                  *)

AsciiOrder == <<".">> \o DigitChars \o UpperLetters \o LowerLetters
CharCode(c) == CHOOSE i \in 1..Len(AsciiOrder) : AsciiOrder[i] = c

RECURSIVE StrLess(_, _)
\* a < b on str
StrLess(a, b) ==
    IF b = <<>> THEN FALSE
    ELSE IF a = <<>> THEN TRUE
    ELSE IF Head(a) # Head(b) THEN CharCode(Head(a)) < CharCode(Head(b))
    ELSE StrLess(Tail(a), Tail(b))

MdSuffix == <<".","m","d">>

\* fnmatch of a file name against "*.md"
MatchesGlob(name) ==
    Len(name) >= Len(MdSuffix)
    /\ SubSeq(name, Len(name) - Len(MdSuffix) + 1, Len(name)) = MdSuffix

LastDot(name) ==
    IF \E i \in 1..Len(name) : name[i] = "."
    THEN CHOOSE i \in 1..Len(name) :
            name[i] = "." /\ \A j \in (i + 1)..Len(name) : name[j] # "."
    ELSE 0

\* Path.stem
Stem(name) == IF LastDot(name) > 1 THEN SubSeq(name, 1, LastDot(name) - 1) ELSE name

RECURSIVE SortedByName(_)
SortedByName(files) ==
    IF files = {} THEN <<>>
    ELSE LET first == CHOOSE f \in files :
                        \A g \in files \ {f} : StrLess(f.name, g.name)
         IN  <<first>> \o SortedByName(files \ {first})

\* sorted(DIR.glob("*.md"))
SortedGlob(dir) == SortedByName({f \in dir : MatchesGlob(f.name)})

BuildPost(file, localOff) ==
    LET parsed == _parse_markdown(file.text)
    IN  [slug         |-> Stem(file.name),
         title        |-> parsed.title,
         excerpt      |-> parsed.excerpt,
         content_html |-> parsed.html,
         published_at |-> parsed.published_at,
         updated_at   |-> FromTimestamp(file.mtime, localOff)]

BuildRoadmapEntry(file, localOff) ==
    LET parsed == _parse_roadmap_entry(file.text)
    IN  [slug         |-> Stem(file.name),
         title        |-> parsed.title,
         status       |-> IF parsed.status # <<>> THEN parsed.status
                          ELSE DefaultStatus,
         status_class |-> StatusClassOf(parsed.status),
         deadline     |-> parsed.deadline,
         progress     |-> parsed.progress,
         excerpt      |-> parsed.excerpt,
         content_html |-> parsed.html,
         updated_at   |-> FromTimestamp(file.mtime, localOff)]

\* posts.sort(key=lambda post: post.updated_at, reverse=True)
PostSortKey(post) == <<post.updated_at.t>>

Reversed(list) == ListOf([i \in 1..Len(list) |-> list[Len(list) + 1 - i]])

\* load_posts sorting ascending and reversing the list afterwards
load_posts_reversed(dir, localOff) ==
    LET paths == SortedGlob(dir)
        posts == ListOf([i \in 1..Len(paths) |-> BuildPost(paths[i], localOff)])
        keys  == ListOf([i \in 1..Len(paths) |-> PostSortKey(posts[i])])
    IN  IF \E i \in 1..Len(paths) : ~paths[i].readable THEN Raised("OSError")
        ELSE Returned(Reversed(SortByKeys(posts, keys, FALSE)))

\* load_posts(): read_text raises on the first file that cannot be read
load_posts(dir, localOff) ==
    LET paths == SortedGlob(dir)
        posts == ListOf([i \in 1..Len(paths) |-> BuildPost(paths[i], localOff)])
        keys  == ListOf([i \in 1..Len(paths) |-> PostSortKey(posts[i])])
    IN  IF \E i \in 1..Len(paths) : ~paths[i].readable THEN Raised("OSError")
        ELSE Returned(SortByKeys(posts, keys, TRUE))

\* load_roadmap(): readings[i] is what datetime.now() returns while the sort
\* computes the key of the i-th entry
load_roadmap(dir, readings, localOff) ==
    LET paths == SortedGlob(dir)
        built == ListOf([i \in 1..Len(paths) |->
                            BuildRoadmapEntry(paths[i], localOff)])
        keyed == ListOf([i \in 1..Len(paths) |->
                            _roadmap_sort_key(built[i], readings[i], localOff)])
        keys  == ListOf([i \in 1..Len(paths) |-> keyed[i].value])
    IN  IF \E i \in 1..Len(paths) : ~paths[i].readable THEN Raised("OSError")
        ELSE IF \E i \in 1..Len(paths) : keyed[i].raised THEN Raised("TypeError")
        ELSE Returned(SortByKeys(built, keys, FALSE))

-----------------------------------------------------------------------------
(* State machine.  `out` holds the outcome of the last operation: what it  *)
(* returned or the exception it raised, and for load_roadmap the clock     *)
(* readings its sort keys took.                                            *)

\* how far the wall clock runs past ClockStart
MaxClock == 1
\* longest document, in lines, handed to the parsers
MaxLines == 3
\* longest list handed to _select_homepage_entries
MaxEntries == 4
\* file modification times are MtimeBase + 1 .. MtimeBase + MaxMtime
MaxMtime == 2
\* most files of a directory
MaxFiles == 3

ClockStart == MinutesOf(2030, 1, 1, 0, 0)
MtimeBase == MinutesOf(2029, 12, 1, 0, 0) - EpochMinutes
TimeZones == {0, 60}

NoOutcome ==
    [op |-> "none", raised |-> FALSE, exc |-> "", value |-> None,
     readings |-> <<>>]

Outcome(op, result, readings) ==
    [op |-> op, raised |-> result.raised, exc |-> result.exc,
     value |-> result.value, readings |-> readings]

RECURSIVE SumTo(_, _)
SumTo(ticks, i) == IF i = 0 THEN 0 ELSE SumTo(ticks, i - 1) + ticks[i]

\* the clock advances by itself between two operations
Tick ==
    /\ now < ClockStart + MaxClock
    /\ now' = now + 1
    /\ UNCHANGED <<blog, roadmap, tz, out, prev, doc, entries>>

\* a request runs load_posts()
LoadPosts ==
    /\ out' = Outcome("load_posts", load_posts(blog, tz), <<>>)
    /\ prev' = out
    /\ UNCHANGED <<blog, roadmap, tz, now, doc, entries>>

\* the number of sort keys load_roadmap computes: none when a read fails
KeysComputed(dir) ==
    IF \E f \in dir : MatchesGlob(f.name) /\ ~f.readable THEN 0
    ELSE Len(SortedGlob(dir))

\* a request runs load_roadmap(); the clock may advance before each key of
\* the sort is computed
LoadRoadmap ==
    \E n \in {KeysComputed(roadmap)} :
        \E ticks \in [1..n -> 0..MaxClock] :
            \E readings \in {ListOf([i \in 1..n |-> now + SumTo(ticks, i)])} :
                /\ now + SumTo(ticks, n) <= ClockStart + MaxClock
                /\ out' = Outcome("load_roadmap",
                                  load_roadmap(roadmap, readings, tz), readings)
                /\ now' = now + SumTo(ticks, n)
                /\ prev' = out
                /\ UNCHANGED <<blog, roadmap, tz, doc, entries>>

\* the homepage handler selects its highlight entries
SelectHomepage ==
    /\ out' = Outcome("_select_homepage_entries",
                      Returned(_select_homepage_entries(entries, tz)), <<>>)
    /\ prev' = out
    /\ UNCHANGED <<blog, roadmap, tz, now, doc, entries>>

\* load_posts hands a file's text to _parse_markdown
ParseMarkdown ==
    /\ out' = Outcome("_parse_markdown", Returned(_parse_markdown(doc)), <<>>)
    /\ UNCHANGED <<blog, roadmap, tz, now, prev, doc, entries>>

\* load_roadmap hands a file's text to _parse_roadmap_entry
ParseRoadmapEntry ==
    /\ out' = Outcome("_parse_roadmap_entry",
                      Returned(_parse_roadmap_entry(doc)), <<>>)
    /\ UNCHANGED <<blog, roadmap, tz, now, prev, doc, entries>>

-----------------------------------------------------------------------------
(* Documents the specifications draw from. *)

LineTitle == <<"#"," ","P","l","a","n">>
LineBlank == <<>>
LineText == <<"S","o","m","e"," ","t","e","x","t">>
LineDate == <<"d","a","t","e",":"," ","2","0","3","0","-","0","1","-","0","1">>
LineDateBad == <<"D","a","t","e",":"," ","t","o","m","o","r","r","o","w">>
LineDateIndented == <<" ","d","a","t","e",":"," ","2","0","3","0","-","0","1","-","0","2">>
LineProgress == <<"p","r","o","g","r","e","s","s",":"," ","5","0","%">>
LineProgressHigh == <<"P","R","O","G","R","E","S","S",":"," ","1","5","0">>
LineProgressBad == <<"p","r","o","g","r","e","s","s",":"," ","5","x">>
LineStatusDone == <<"s","t","a","t","u","s",":"," ","D","o","n","e">>
LineDeadlineEmpty == <<"d","e","a","d","l","i","n","e",":">>

ParseLines ==
    {LineTitle, LineBlank, LineText, LineDate, LineDateBad, LineDateIndented,
     LineProgress, LineProgressHigh, LineProgressBad, LineStatusDone,
     LineDeadlineEmpty}

LineSeqs(lines, n) == UNION {[1..k -> lines] : k \in 0..n}

\* the text of a file holding these lines, each ended by a newline
TextOf(lines) ==
    IF lines = <<>> THEN <<>> ELSE JoinWith(lines, <<"\n">>) \o <<"\n">>

\* The parsers, on every document of at most MaxLines lines of ParseLines.
InitParse ==
    /\ doc \in {TextOf(ls) : ls \in LineSeqs(ParseLines, MaxLines)}
    /\ blog = {} /\ roadmap = {} /\ tz = 0 /\ now = ClockStart
    /\ out = NoOutcome /\ prev = NoOutcome /\ entries = <<>>

NextParse == ParseMarkdown \/ ParseRoadmapEntry

SpecParse == InitParse /\ [][NextParse]_vars

-----------------------------------------------------------------------------
(* Directories the specifications draw from. *)

File(name, lines, mtime, readable) ==
    [name |-> name, text |-> TextOf(lines), mtime |-> MtimeBase + mtime,
     readable |-> readable]

NameA == <<"a",".","m","d">>
NameB == <<"b",".","m","d">>
NameC == <<"c",".","m","d">>
NameD == <<"d",".","m","d">>
NameE == <<"e",".","m","d">>
NameF == <<"f",".","m","d">>
NameG == <<"g",".","m","d">>
NameH == <<"h",".","m","d">>
NameNotes == <<"n","o","t","e","s",".","t","x","t">>

LineStatusNext == <<"S","t","a","t","u","s",":"," ","N","E","X","T">>
LineStatusOdd == <<"s","t","a","t","u","s",":"," ","b","l","o","c","k","e","d">>
LineStatusBlank == <<"s","t","a","t","u","s",":">>
LineStatusLater == <<"s","t","a","t","u","s",":"," "," "," ","l","a","t","e","r">>
LineDeadlineDay == <<"d","e","a","d","l","i","n","e",":"," ","2","0","3","0","-","0","1","-","0","1">>
LineDeadlineMinute == <<"d","e","a","d","l","i","n","e",":"," ","2","0","3","0","-","0","1","-","0","1","T","0","0",":","0","1">>
LineDeadlineJunk == <<"d","e","a","d","l","i","n","e",":"," ","s","o","o","n">>
LineDeadlineSlash == <<"d","e","a","d","l","i","n","e",":"," ","2","0","3","0","/","0","1","/","0","2">>
LineDeadlineOffset == <<"d","e","a","d","l","i","n","e",":"," ","2","0","3","0","-","0","1","-","0","1","T","0","0",":","0","1","+","0","1",":","0","0">>

\* roadmap files: every status category, and a deadline of every kind
\* (a plain date, a date-time, an unparseable text, a slash date, a date-time
\* with a UTC offset, none)
FileDoneDay == File(NameA, <<LineTitle, LineStatusDone, LineDeadlineDay>>, 1, TRUE)
FileMinuteNew == File(NameB, <<LineDeadlineMinute, LineText>>, 2, TRUE)
FileMinuteOld == File(NameC, <<LineTitle, LineDeadlineMinute>>, 1, TRUE)
FileNextJunk == File(NameD, <<LineStatusNext, LineDeadlineJunk>>, 2, TRUE)
FileOffset == File(NameE, <<LineDeadlineOffset>>, 1, TRUE)
FileOddSlash == File(NameF, <<LineStatusOdd, LineDeadlineSlash>>, 1, TRUE)
FileBlankDay == File(NameG, <<LineStatusBlank, LineDeadlineDay>>, 2, TRUE)
FileLater == File(NameH, <<LineStatusLater, LineText>>, 1, TRUE)
FileNotes == File(NameNotes, <<LineText>>, 1, FALSE)

RoadmapPool ==
    {FileDoneDay, FileMinuteNew, FileMinuteOld, FileNextJunk, FileOffset,
     FileOddSlash, FileBlankDay, FileLater, FileNotes}

UpTo(pool, n) == {dir \in SUBSET pool : Cardinality(dir) <= n}

\* load_roadmap on every directory of at most MaxFiles files of RoadmapPool.
InitRoadmap ==
    /\ roadmap \in UpTo(RoadmapPool, MaxFiles)
    /\ blog = {} /\ tz = 0 /\ now = ClockStart
    /\ out = NoOutcome /\ prev = NoOutcome /\ doc = <<>> /\ entries = <<>>

NextRoadmap == LoadRoadmap

SpecRoadmap == InitRoadmap /\ [][NextRoadmap]_vars

\* blog files: each name with any modification time and either text
PostFiles(name) ==
    {File(name, lines, m, TRUE) :
        lines \in {<<LineTitle, LineDate, LineText>>, <<LineText>>},
        m \in 1..MaxMtime}

\* a directory holds at most one file of a name
BlogDirs ==
    {a \cup b \cup c :
        a \in {{}} \cup {{f} : f \in PostFiles(NameA)},
        b \in {{}} \cup {{f} : f \in PostFiles(NameB)},
        c \in {{}} \cup {{f} : f \in PostFiles(NameC)}}

\* load_posts on every directory of BlogDirs, in either time zone.
InitPosts ==
    /\ blog \in BlogDirs
    /\ tz \in TimeZones
    /\ roadmap = {} /\ now = ClockStart
    /\ out = NoOutcome /\ prev = NoOutcome /\ doc = <<>> /\ entries = <<>>

NextPosts == LoadPosts

SpecPosts == InitPosts /\ [][NextPosts]_vars

\* both directories, with files that cannot be read among them
FileUnreadable == File(NameC, <<LineText>>, 1, FALSE)
FilePostA == File(NameA, <<LineTitle, LineDate, LineText>>, 1, TRUE)
FilePostB == File(NameB, <<LineText>>, 1, TRUE)

BlogPool == {FilePostA, FilePostB, FileUnreadable, FileNotes}
RequestPool ==
    {FileDoneDay, FileBlankDay, FileMinuteNew, FileOffset, FileUnreadable}

\* Requests against both directories while the clock runs.
Init ==
    /\ blog \in UpTo(BlogPool, MaxFiles)
    /\ roadmap \in UpTo(RequestPool, MaxFiles)
    /\ tz = 0 /\ now = ClockStart
    /\ out = NoOutcome /\ prev = NoOutcome /\ doc = <<>> /\ entries = <<>>

Next == LoadPosts \/ LoadRoadmap \/ Tick

Spec == Init /\ [][Next]_vars

LineProgressNearly == <<"p","r","o","g","r","e","s","s",":"," ","9","9">>
LineProgressNone == <<"p","r","o","g","r","e","s","s",":"," ","0">>
LineProgressFull == <<"p","r","o","g","r","e","s","s",":"," ","1","0","0">>

\* roadmap files of every progress (absent, 0, 50, 99, 100) and deadline kind
HomePool ==
    {File(NameA, <<LineProgressNearly, LineText>>, 1, TRUE),
     File(NameB, <<LineProgressNearly, LineDeadlineMinute>>, 1, TRUE),
     File(NameC, <<LineProgress, LineDeadlineOffset>>, 1, TRUE),
     File(NameD, <<LineProgress, LineDeadlineMinute>>, 1, TRUE),
     File(NameE, <<LineProgress, LineDeadlineJunk>>, 2, TRUE),
     File(NameF, <<LineProgressFull, LineDeadlineDay>>, 1, TRUE),
     File(NameG, <<LineProgressHigh, LineDeadlineDay>>, 1, TRUE),
     File(NameH, <<LineProgressNone, LineDeadlineSlash>>, 1, TRUE)}

\* the lists of at most n entries built from distinct files of the pool
EntryLists(pool, n, localOff) ==
    {[i \in 1..Len(fs) |-> BuildRoadmapEntry(fs[i], localOff)] :
        fs \in {gs \in LineSeqs(pool, n) :
                    \A i, j \in 1..Len(gs) : i # j => gs[i] # gs[j]}}

\* _select_homepage_entries on every list of at most MaxEntries entries.
InitHome ==
    /\ tz \in TimeZones
    /\ entries \in EntryLists(HomePool, MaxEntries, tz)
    /\ blog = {} /\ roadmap = {} /\ now = ClockStart
    /\ out = NoOutcome /\ prev = NoOutcome /\ doc = <<>>

NextHome == SelectHomepage

SpecHome == InitHome /\ [][NextHome]_vars

-----------------------------------------------------------------------------
(* Properties of the parsers (SpecParse). *)

PostKeys == {DateKey}
RoadmapKeys == {StatusKey, DeadlineKey, ProgressKey}

\* the line starts, whatever the case of its letters, with one of the keys
\* (each key ends with its colon)
IsFieldLine(line, keys) ==
    \E key \in keys :
        /\ Len(line) >= Len(key)
        /\ \A i \in 1..Len(key) : LowerChar(line[i]) = key[i]

\* the lines of the document after its title line, if it has one
ScannedLines == AfterTitle(RStrippedLines(doc))

RetainedLines(keys) ==
    SelectSeq(ScannedLines, LAMBDA line : ~IsFieldLine(line, keys))

\* C10: the body lines a parser keeps are exactly the scanned lines that do
\* not start with a key of the document's kind, in their original order;
\* every line that starts with such a key is dropped, wherever it stands and
\* whatever its value.
C10_SinglePassFieldRemoval ==
    /\ out.op = "_parse_markdown"
          => out.value.body_lines = RetainedLines(PostKeys)
    /\ out.op = "_parse_roadmap_entry"
          => out.value.body_lines = RetainedLines(RoadmapKeys)

\* a roadmap document whose field line with an empty value follows a body
\* line and is dropped, while its upper-case field line is dropped too and a
\* line with a key of the other kind is kept
C10_Witness ==
    /\ out.op = "_parse_roadmap_entry"
    /\ ScannedLines = <<LineDate, LineDeadlineEmpty, LineProgressHigh>>
    /\ out.value.body_lines = <<LineDate>>

\* the value of a field line: the text after its first colon, trimmed
FieldValue(line) == Strip(AfterFirst(line, ":"))

\* the parse rule of progress: after one trailing % is dropped, an integer
\* in 0..100
ProgressValueValid(value) ==
    LET digits == IF value # <<>> /\ value[Len(value)] = "%"
                  THEN SubSeq(value, 1, Len(value) - 1) ELSE value
    IN  ParseInt(digits) # None
        /\ 0 <= Val(ParseInt(digits)) /\ Val(ParseInt(digits)) <= 100

\* the parse rule of date: ISO-8601
DateValueValid(value) == FromIsoFormat(value) # None

\* the parse rule of the coerced key
ValueValid(key, value) ==
    IF key = DateKey THEN DateValueValid(value) ELSE ProgressValueValid(value)

\* some line of the key carries a non-empty value that fails the rule, and no
\* later line of the key carries a valid one
FailsLast(key) ==
    \E i \in 1..Len(ScannedLines) :
        /\ IsFieldLine(ScannedLines[i], {key})
        /\ FieldValue(ScannedLines[i]) # <<>>
        /\ ~ValueValid(key, FieldValue(ScannedLines[i]))
        /\ \A j \in (i + 1)..Len(ScannedLines) :
              ~(IsFieldLine(ScannedLines[j], {key})
                /\ ValueValid(key, FieldValue(ScannedLines[j])))

\* C6 as stated: a failing value of a coerced key that no later valid value
\* of the key follows leaves the field absent, also after an earlier valid
\* value; a present progress is an integer in 0..100.
C6_FailingValueLeavesAbsent ==
    /\ (out.op = "_parse_markdown" /\ FailsLast(DateKey))
          => out.value.published_at = None
    /\ (out.op = "_parse_roadmap_entry"
        /\ FailsLast(ProgressKey))
          => out.value.progress = None
    /\ (out.op = "_parse_roadmap_entry" /\ out.value.progress # None)
          => Val(out.value.progress) \in 0..100

-----------------------------------------------------------------------------
(* Properties of load_roadmap (SpecRoadmap). *)

RoadmapReturned == out.op = "load_roadmap" /\ ~out.raised

Matched(dir) == {f \in dir : MatchesGlob(f.name)}

\* the clock values between the first and the last key of the last load
LoadTimes ==
    IF out.readings = <<>> THEN {now}
    ELSE out.readings[1]..out.readings[Len(out.readings)]

\* the 4-key tuple of an entry, its distance measured at time T
TupleAt(entry, T) == _roadmap_sort_key(entry, T, tz).value

AscendingAt(list, T) ==
    \A i \in 1..(Len(list) - 1) :
        ~TupleLess(TupleAt(list[i + 1], T), TupleAt(list[i], T))

\* C1 as stated: whatever the status, progress and deadline texts of the
\* documents, load_roadmap raises nothing and returns an entry for every
\* document.
C1_NeverRaises ==
    (out.op = "load_roadmap" /\ \A f \in Matched(roadmap) : f.readable)
        => /\ ~out.raised
           /\ {out.value[i].slug : i \in 1..Len(out.value)}
                 = {Stem(f.name) : f \in Matched(roadmap)}

\* C2 as stated: the list load_roadmap returns is ascending in the 4-key
\* tuple with every distance measured at one time of that load.
C2_AscendingAtOneTime ==
    RoadmapReturned => \E T \in LoadTimes : AscendingAt(out.value, T)

\* the rank of the category a status text names
CategoryRank(status) ==
    LET names == <<StatusNow, StatusNext, StatusLater, StatusDone>>
        text  == Lower(Strip(status))
    IN  IF \E r \in 1..4 : names[r] = text
        THEN (CHOOSE r \in 1..4 : names[r] = text) - 1
        ELSE 0

HasDeadline(entry) == _parse_deadline(entry.deadline) # None

\* C4: in the list load_roadmap returns, no entry comes before an entry of a
\* lower status rank.
C4_RankDominates ==
    RoadmapReturned =>
        \A i, j \in 1..Len(out.value) :
            i < j => CategoryRank(out.value[i].status)
                        <= CategoryRank(out.value[j].status)

\* an entry without a parseable deadline stands before an entry of a higher
\* rank whose deadline is the closest there is
C4_Witness ==
    /\ RoadmapReturned
    /\ \E i, j \in 1..Len(out.value) :
          /\ i < j
          /\ CategoryRank(out.value[i].status) < CategoryRank(out.value[j].status)
          /\ ~HasDeadline(out.value[i])
          /\ HasDeadline(out.value[j])
          /\ out.value[j].deadline = Some(FieldValue(LineDeadlineDay))

StatusClasses == <<"status-now", "status-next", "status-later", "status-done">>

\* C9: every entry load_roadmap returns has one of the four status classes,
\* the one its trimmed, lower-cased status names and status-now for any other
\* text, and that class is the category of the rank _status_rank gives it.
C9_StatusClassTotal ==
    RoadmapReturned =>
        \A i \in 1..Len(out.value) :
            /\ \E r \in 1..4 : StatusClasses[r] = out.value[i].status_class
            /\ out.value[i].status_class
                  = StatusClasses[CategoryRank(out.value[i].status) + 1]
            /\ StatusClasses[_status_rank(out.value[i].status) + 1]
                  = out.value[i].status_class

\* a list with an upper-case status, an unrecognized status and the default
\* status of a blank status field
C9_Witness ==
    /\ RoadmapReturned
    /\ \E i, j, k \in 1..Len(out.value) :
          /\ out.value[i].status = FieldValue(LineStatusNext)
          /\ out.value[i].status_class = "status-next"
          /\ out.value[j].status = FieldValue(LineStatusOdd)
          /\ out.value[j].status_class = "status-now"
          /\ out.value[k].slug = Stem(NameG)
          /\ out.value[k].status = DefaultStatus

-----------------------------------------------------------------------------
(* Properties of _select_homepage_entries (SpecHome). *)

Eligible(entry) == entry.progress # None /\ Val(entry.progress) < 100

DeadlineTime(entry) == Timestamp(Val(_parse_deadline(entry.deadline)), tz)

\* entry e has to stand before entry f on the homepage
HomeBefore(e, f) ==
    \/ Val(e.progress) > Val(f.progress)
    \/ /\ Val(e.progress) = Val(f.progress)
       /\ HasDeadline(e)
       /\ ~HasDeadline(f) \/ DeadlineTime(e) < DeadlineTime(f)

SelectReturned == out.op = "_select_homepage_entries"

\* C3: the selection holds min(3, number of eligible entries) distinct
\* eligible entries of the input, no entry of it has to stand before an
\* earlier one, and no eligible entry left out has to stand before one of it.
C3_HomepageSelection ==
    SelectReturned =>
        \E eligible \in {{i \in 1..Len(entries) : Eligible(entries[i])}} :
            /\ Len(out.value)
                  = IF Cardinality(eligible) < 3 THEN Cardinality(eligible) ELSE 3
            /\ \A k \in 1..Len(out.value) :
                  \E i \in eligible : entries[i] = out.value[k]
            /\ \A k, l \in 1..Len(out.value) :
                  k < l => /\ out.value[k] # out.value[l]
                           /\ ~HomeBefore(out.value[l], out.value[k])
            /\ \A i \in eligible :
                  (\A k \in 1..Len(out.value) : out.value[k] # entries[i])
                     => \A k \in 1..Len(out.value) :
                           ~HomeBefore(entries[i], out.value[k])

\* four eligible entries cut to three, the first two of one progress, with
\* and without a deadline
C3_Witness ==
    /\ SelectReturned
    /\ Len(entries) = 4 /\ \A i \in 1..4 : Eligible(entries[i])
    /\ Len(out.value) = 3
    /\ out.value[1].progress = out.value[2].progress
    /\ HasDeadline(out.value[1]) /\ ~HasDeadline(out.value[2])
    /\ out.value[1] = entries[4]

-----------------------------------------------------------------------------
(* Properties of load_posts (SpecPosts). *)

PostsReturned == out.op = "load_posts" /\ ~out.raised

\* C5: the list load_posts returns holds the post of every matched file
\* once, no post stands before a post updated later, and posts updated at
\* the same time stand in the order of their file names.
C5_StableDescending ==
    PostsReturned =>
        \E paths \in {SortedGlob(blog)} :
            /\ Len(out.value) = Len(paths)
            /\ \A i \in 1..Len(paths) :
                  \E k \in 1..Len(out.value) :
                      out.value[k] = BuildPost(paths[i], tz)
            /\ \A k, l \in 1..Len(out.value) :
                  k < l =>
                     /\ out.value[k].updated_at.t >= out.value[l].updated_at.t
                     /\ out.value[k].updated_at.t = out.value[l].updated_at.t
                           => \E i, j \in 1..Len(paths) :
                                 /\ i < j
                                 /\ Stem(paths[i].name) = out.value[k].slug
                                 /\ Stem(paths[j].name) = out.value[l].slug

\* the last file is the newest and comes first; the two others, updated at
\* one time, follow in the order of their names
C5_Witness ==
    /\ PostsReturned
    /\ Len(out.value) = 3
    /\ out.value[1].slug = Stem(NameC)
    /\ out.value[2].slug = Stem(NameA)
    /\ out.value[3].slug = Stem(NameB)
    /\ out.value[1].updated_at.t > out.value[2].updated_at.t
    /\ out.value[2].updated_at = out.value[3].updated_at

-----------------------------------------------------------------------------
(* Properties of repeated loads and of failing reads (Spec). *)

Loads == {"load_posts", "load_roadmap"}

\* the last two operations were the same load and both returned
LoadedTwice(op) ==
    /\ out.op = op /\ prev.op = op
    /\ ~out.raised /\ ~prev.raised

Position(list, entry) == CHOOSE i \in 1..Len(list) : list[i] = entry

C8_FailsOnlyOnUnreadable ==
    \A op \in Loads :
        out.op = op =>
            \E dir \in {IF op = "load_posts" THEN Matched(blog)
                        ELSE Matched(roadmap)} :
                IF \E f \in dir : ~f.readable
                THEN out.raised /\ out.value = None
                ELSE ~out.raised /\ Len(out.value) = Cardinality(dir)

====
